---- MODULE Spec2Model ----
(***************************************************************************)
(* Result-sheet GPA pipeline of app.py: parse_result_pdfs (hint, rows,     *)
(* fold, matrix, GPA), add_ranks, the empty-result check and the lookup.   *)
(*                                                                         *)
(* Text is a sequence of one-character strings; None is a value no text    *)
(* equals.  Grade points are kept in tenths, GPA in hundredths and         *)
(* Percentile in hundredths of a percent, so that all arithmetic is exact. *)
(***************************************************************************)
EXTENDS Integers, Sequences, FiniteSets, TLC

VARIABLES pc, nfiles, filename, txt, scanLeft, module_code, pagesLeft, header,
          rowsLeft, row, student_results, found_modules, overwrote, df,
          student_row

vars == <<pc, nfiles, filename, txt, scanLeft, module_code, pagesLeft, header,
          rowsLeft, row, student_results, found_modules, overwrote, df,
          student_row>>

(* ------------------------------ bounds --------------------------------- *)
MaxFiles == 2
MaxPages == 2
MaxRows == 2
MaxCols == 6

(* ------------------------------- text ---------------------------------- *)
None == <<"None">>

IsStr(x) == x # None

Digits == <<"0","1","2","3","4","5","6","7","8","9">>

UpperLetters ==
    <<"A","B","C","D","E","F","G","H","I","J","K","L","M","N","O","P","Q","R","S","T","U","V","W","X","Y","Z">>

LowerLetters ==
    <<"a","b","c","d","e","f","g","h","i","j","k","l","m","n","o","p","q","r","s","t","u","v","w","x","y","z">>

(* Other characters of the texts, with their code points. *)
OtherChars ==
    { <<"\t", 9>>, <<"\n", 10>>, <<" ", 32>>, <<"+", 43>>, <<"-", 45>>,
      <<".", 46>>, <<"_", 95>> }

CodePoint ==
    [c \in {Digits[i] : i \in 1..10} \cup {UpperLetters[i] : i \in 1..26}
           \cup {LowerLetters[i] : i \in 1..26} \cup {p[1] : p \in OtherChars} |->
       IF \E i \in 1..10 : Digits[i] = c
       THEN 47 + (CHOOSE i \in 1..10 : Digits[i] = c)
       ELSE IF \E i \in 1..26 : UpperLetters[i] = c
       THEN 64 + (CHOOSE i \in 1..26 : UpperLetters[i] = c)
       ELSE IF \E i \in 1..26 : LowerLetters[i] = c
       THEN 96 + (CHOOSE i \in 1..26 : LowerLetters[i] = c)
       ELSE (CHOOSE p \in OtherChars : p[1] = c)[2]]

Ord(c) == CodePoint[c]

IsSpace(c) == c \in {" ", "\t", "\n"}

IsDigit(c) == Ord(c) >= 48 /\ Ord(c) <= 57

IsUpperLetter(c) == Ord(c) >= 65 /\ Ord(c) <= 90

IsLowerLetter(c) == Ord(c) >= 97 /\ Ord(c) <= 122

UpperChar(c) == IF IsLowerLetter(c) THEN UpperLetters[Ord(c) - 96] ELSE c

Upper(s) == [i \in 1..Len(s) |-> UpperChar(s[i])]

RECURSIVE LStrip(_)
LStrip(s) == IF s # <<>> /\ IsSpace(Head(s)) THEN LStrip(Tail(s)) ELSE s

RECURSIVE RStrip(_)
RStrip(s) == IF s # <<>> /\ IsSpace(s[Len(s)])
             THEN RStrip(SubSeq(s, 1, Len(s) - 1)) ELSE s

Strip(s) == RStrip(LStrip(s))

RemoveSpaces(s) == SelectSeq(s, LAMBDA c : c # " ")

RECURSIVE StrLess(_, _)
StrLess(a, b) ==
    IF b = <<>> THEN FALSE
    ELSE IF a = <<>> THEN TRUE
    ELSE IF Head(a) = Head(b) THEN StrLess(Tail(a), Tail(b))
    ELSE Ord(Head(a)) < Ord(Head(b))

RECURSIVE Sorted(_)
Sorted(S) ==
    IF S = {} THEN <<>>
    ELSE LET m == CHOOSE x \in S : \A y \in S \ {x} : StrLess(x, y)
         IN  <<m>> \o Sorted(S \ {m})

(* ----------------------------- grammars -------------------------------- *)
ModuleAt(s, i) ==
    /\ i + 4 <= Len(s)
    /\ UpperChar(s[i]) = "I"
    /\ UpperChar(s[i + 1]) = "T"
    /\ \A k \in 2..4 : IsDigit(s[i + k])

MODULE_PATTERN_search(s) ==
    IF \E i \in 1..Len(s) : ModuleAt(s, i)
    THEN LET i == CHOOSE j \in 1..Len(s) :
                      ModuleAt(s, j) /\ \A k \in 1..(j - 1) : ~ModuleAt(s, k)
             n == IF i + 5 <= Len(s) /\ IsDigit(s[i + 5]) THEN 6 ELSE 5
         IN  SubSeq(s, i, i + n - 1)
    ELSE None

IsLetterGrade(s) ==
    /\ Len(s) \in {1, 2}
    /\ UpperChar(s[1]) \in {"A", "B", "C", "D", "E", "F"}
    /\ Len(s) = 2 => s[2] \in {"+", "-"}

IsScore(s) ==
    \E n \in 1..3 :
        /\ n <= Len(s)
        /\ \A k \in 1..n : IsDigit(s[k])
        /\ \/ Len(s) = n
           \/ /\ Len(s) >= n + 2
              /\ s[n + 1] = "."
              /\ \A k \in (n + 2)..Len(s) : IsDigit(s[k])

GRADE_PATTERN_match(s) == IsLetterGrade(s) \/ IsScore(s)

(* ^IT\w* matches whenever the text starts with IT: \w* may match nothing. *)
REG_PATTERN_match(s) ==
    Len(s) >= 2 /\ UpperChar(s[1]) = "I" /\ UpperChar(s[2]) = "T"

(* ----------------------------- registry -------------------------------- *)
GpTable ==
    { <<<<"A","+">>, 40>>,
      <<<<"A">>, 40>>,
      <<<<"A","-">>, 37>>,
      <<<<"B","+">>, 33>>,
      <<<<"B">>, 30>>,
      <<<<"B","-">>, 27>>,
      <<<<"C","+">>, 23>>,
      <<<<"C">>, 20>>,
      <<<<"C","-">>, 17>>,
      <<<<"D","+">>, 13>>,
      <<<<"D">>, 10>>,
      <<<<"E">>, 0>>,
      <<<<"F">>, 0>> }

GP_MAP == [g \in {p[1] : p \in GpTable} |->
              (CHOOSE p \in GpTable : p[1] = g)[2]]

CreditsTable ==
    { <<<<"I","T","1","0","1","0">>, 4>>,
      <<<<"I","T","1","0","2","0">>, 4>>,
      <<<<"I","T","1","0","3","0">>, 4>>,
      <<<<"I","T","1","0","4","0">>, 3>>,
      <<<<"I","T","1","0","5","0">>, 2>>,
      <<<<"I","T","1","0","6","0">>, 3>>,
      <<<<"I","T","1","0","8","0">>, 3>>,
      <<<<"I","T","1","0","9","0">>, 4>>,
      <<<<"I","T","1","1","0","0">>, 4>>,
      <<<<"I","T","2","0","2","0">>, 4>>,
      <<<<"I","T","2","0","3","0">>, 4>>,
      <<<<"I","T","2","0","4","0">>, 4>>,
      <<<<"I","T","2","0","5","0">>, 4>>,
      <<<<"I","T","2","0","6","0">>, 4>>,
      <<<<"I","T","2","0","7","0">>, 4>>,
      <<<<"I","T","2","0","8","0">>, 4>>,
      <<<<"I","T","2","0","9","0">>, 2>>,
      <<<<"I","T","2","1","0","0">>, 1>>,
      <<<<"I","T","2","1","1","0">>, 3>>,
      <<<<"I","T","3","0","1","0">>, 4>>,
      <<<<"I","T","3","0","2","0">>, 4>>,
      <<<<"I","T","3","0","3","0">>, 4>>,
      <<<<"I","T","3","0","4","0">>, 4>>,
      <<<<"I","T","3","0","5","0">>, 1>>,
      <<<<"I","T","3","0","6","0">>, 4>>,
      <<<<"I","T","3","0","7","0">>, 4>>,
      <<<<"I","T","3","0","8","0">>, 4>>,
      <<<<"I","T","3","0","9","0">>, 3>>,
      <<<<"I","T","3","1","1","0">>, 8>>,
      <<<<"I","T","4","0","1","0">>, 16>>,
      <<<<"I","T","4","0","7","0">>, 2>>,
      <<<<"I","T","4","0","2","0">>, 4>>,
      <<<<"I","T","4","0","3","0">>, 4>>,
      <<<<"I","T","4","0","4","0">>, 4>>,
      <<<<"I","T","4","0","5","0">>, 4>>,
      <<<<"I","T","4","0","6","0">>, 4>>,
      <<<<"I","T","4","0","9","0">>, 4>>,
      <<<<"I","T","4","1","0","0">>, 4>>,
      <<<<"I","T","4","1","1","0">>, 4>>,
      <<<<"I","T","4","1","2","0">>, 4>>,
      <<<<"I","T","4","1","3","0">>, 4>>,
      <<<<"S","E","1","0","1","0">>, 4>>,
      <<<<"S","E","2","0","1","0">>, 4>>,
      <<<<"S","E","2","0","2","0">>, 4>>,
      <<<<"S","E","3","0","1","0">>, 4>>,
      <<<<"S","E","3","0","2","0">>, 4>>,
      <<<<"S","E","3","0","3","0">>, 4>>,
      <<<<"S","E","3","0","4","0">>, 4>>,
      <<<<"S","E","3","0","5","0">>, 3>>,
      <<<<"S","E","3","0","6","0">>, 4>>,
      <<<<"S","E","3","0","7","0">>, 4>>,
      <<<<"S","E","3","0","8","0">>, 3>>,
      <<<<"S","E","4","0","1","0">>, 4>>,
      <<<<"S","E","4","0","2","0">>, 4>>,
      <<<<"S","E","4","0","3","0">>, 4>>,
      <<<<"S","E","4","0","4","0">>, 4>>,
      <<<<"S","E","4","0","5","0">>, 4>>,
      <<<<"S","E","4","0","6","0">>, 4>>,
      <<<<"I","E","1","0","0","4">>, 4>>,
      <<<<"I","E","1","0","1","4">>, 3>>,
      <<<<"I","E","1","0","2","4">>, 3>>,
      <<<<"I","E","1","0","3","4">>, 3>>,
      <<<<"I","E","1","0","4","4">>, 3>>,
      <<<<"I","E","2","0","0","4">>, 3>>,
      <<<<"I","E","2","0","2","4">>, 3>>,
      <<<<"I","E","2","0","3","4">>, 3>>,
      <<<<"I","E","2","0","4","4">>, 3>>,
      <<<<"I","E","2","0","6","4">>, 4>>,
      <<<<"I","E","2","0","7","4">>, 3>>,
      <<<<"I","E","2","0","8","4">>, 3>> }

CREDITS == [c \in {p[1] : p \in CreditsTable} |->
               (CHOOSE p \in CreditsTable : p[1] = c)[2]]

(* Variant: the matched code is returned in the case it was written in. *)
ExtractWithoutUpper(name) == MODULE_PATTERN_search(name)

_extract_module_code_from_name(name) ==
    LET m == MODULE_PATTERN_search(name)
    IN  IF m # None THEN Upper(m) ELSE None

(* Optional[float] as a set: {} is None, {v} is the grade point v (tenths). *)
_grade_to_gp(g) ==
    IF ~IsStr(g) THEN {}
    ELSE LET u == Upper(Strip(g))
         IN  IF u \in DOMAIN GP_MAP THEN {GP_MAP[u]} ELSE {}

(* --------------------------- row interpreter --------------------------- *)
RECURSIVE FindRegNo(_)
FindRegNo(r) ==
    IF r = <<>> THEN None
    ELSE IF IsStr(Head(r)) /\ REG_PATTERN_match(Strip(Head(r)))
         THEN Strip(Head(r))
         ELSE FindRegNo(Tail(r))

(* Variant: the scan runs left to right and takes the leftmost match. *)
RECURSIVE ForwardScanGrade(_)
ForwardScanGrade(r) ==
    IF r = <<>> THEN None
    ELSE LET cell == Head(r)
         IN  IF IsStr(cell) /\ Strip(cell) # <<>> /\ GRADE_PATTERN_match(Strip(cell))
             THEN Strip(cell)
             ELSE ForwardScanGrade(Tail(r))

RECURSIVE ReverseScanGrade(_)
ReverseScanGrade(r) ==
    IF r = <<>> THEN None
    ELSE LET cell == r[Len(r)]
         IN  IF IsStr(cell) /\ Strip(cell) # <<>> /\ GRADE_PATTERN_match(Strip(cell))
             THEN Strip(cell)
             ELSE ReverseScanGrade(SubSeq(r, 1, Len(r) - 1))

FallbackIndices == <<3, 2, 4, 5>>

RECURSIVE FallbackFrom(_, _)
FallbackFrom(r, idxs) ==
    IF idxs = <<>> THEN None
    ELSE LET idx == Head(idxs)
         IN  IF /\ Len(r) > idx
                /\ IsStr(r[idx + 1])
                /\ Strip(r[idx + 1]) # <<>>
                /\ GRADE_PATTERN_match(Strip(r[idx + 1]))
             THEN Strip(r[idx + 1])
             ELSE FallbackFrom(r, Tail(idxs))

(* Variant: the fallback takes the first non-empty candidate cell without  *)
(* matching it against the grade grammar.                                  *)
RECURSIVE FallbackAnyText(_, _)
FallbackAnyText(r, idxs) ==
    IF idxs = <<>> THEN None
    ELSE LET idx == Head(idxs)
         IN  IF Len(r) > idx /\ IsStr(r[idx + 1]) /\ Strip(r[idx + 1]) # <<>>
             THEN Strip(r[idx + 1])
             ELSE FallbackAnyText(r, Tail(idxs))

FallbackWithoutPattern(r) == FallbackAnyText(r, FallbackIndices)

FallbackGrade(r) == FallbackFrom(r, FallbackIndices)

FindGrade(r) ==
    LET g == ReverseScanGrade(r)
    IN  IF g # None THEN g ELSE FallbackGrade(r)

(* ------------------------------- fold ---------------------------------- *)
Put(f, k, v) == [x \in DOMAIN f \cup {k} |-> IF x = k THEN v ELSE f[x]]

(* Variant: a cell that already holds a value keeps it (first write wins). *)
RecordKeepFirst(sr, k, m, g) ==
    IF k \in DOMAIN sr /\ m \in DOMAIN sr[k] THEN sr
    ELSE Put(sr, k, Put(IF k \in DOMAIN sr THEN sr[k] ELSE <<>>, m, g))

Record(sr, k, m, g) ==
    Put(sr, k, Put(IF k \in DOMAIN sr THEN sr[k] ELSE <<>>, m, g))

(* ----------------------------- GPA, ranks ------------------------------ *)
(* Variant: every course weighs 1. *)
CreditOfFlat(mod) == 1

CreditOf(mod) == IF mod \in DOMAIN CREDITS THEN CREDITS[mod] ELSE 1

(* <<total_points (tenths), total_credits>> over the module columns. *)
RECURSIVE Totals(_, _)
Totals(cells, cols) ==
    IF cols = <<>> THEN <<0, 0>>
    ELSE LET rest == Totals(cells, Tail(cols))
             gp   == _grade_to_gp(cells[Head(cols)])
         IN  IF gp # {}
             THEN LET cr == CreditOf(Head(cols))
                  IN  <<rest[1] + (CHOOSE v \in gp : TRUE) * cr, rest[2] + cr>>
             ELSE rest

(* round(total_points / total_credits, 2) in hundredths.  The quotient is a *)
(* binary float: when the exact quotient lies halfway between two          *)
(* hundredths the float lies just above or just below it, so either        *)
(* neighbour can be the result; elsewhere the nearest hundredth is.        *)
RoundedGpa(points, credits) ==
    LET q == (points * 10) \div credits
        r == (points * 10) % credits
    IN  IF 2 * r < credits THEN {q}
        ELSE IF 2 * r > credits THEN {q + 1}
        ELSE {q, q + 1}

MatrixRows(sr, mods) ==
    LET keys == Sorted(DOMAIN sr)
    IN  [i \in 1..Len(keys) |->
            [RegNo |-> RemoveSpaces(keys[i]),
             cells |-> [m \in mods |->
                          IF m \in DOMAIN sr[keys[i]] THEN sr[keys[i]][m] ELSE None]]]

(* Variant: a student with no computable grade is kept with GPA 0. *)
RECURSIVE WithGpaKeepingAll(_, _)
WithGpaKeepingAll(rows, cols) ==
    IF rows = <<>> THEN {<<>>}
    ELSE LET t == Totals(Head(rows).cells, cols)
         IN  { <<[RegNo |-> Head(rows).RegNo, cells |-> Head(rows).cells,
                  GPA |-> g]>> \o rest :
               g \in (IF t[2] > 0 THEN RoundedGpa(t[1], t[2]) ELSE {0}),
               rest \in WithGpaKeepingAll(Tail(rows), cols) }

RECURSIVE WithGpa(_, _)
WithGpa(rows, cols) ==
    IF rows = <<>> THEN {<<>>}
    ELSE LET t == Totals(Head(rows).cells, cols)
         IN  IF t[2] > 0
             THEN { <<[RegNo |-> Head(rows).RegNo, cells |-> Head(rows).cells,
                       GPA |-> g]>> \o rest :
                    g \in RoundedGpa(t[1], t[2]), rest \in WithGpa(Tail(rows), cols) }
             ELSE WithGpa(Tail(rows), cols)

Reports(sr, mods) ==
    IF DOMAIN sr = {} THEN {<<>>}
    ELSE WithGpa(MatrixRows(sr, mods), Sorted(mods))

RECURSIVE SortDesc(_)
SortDesc(s) ==
    IF s = <<>> THEN <<>>
    ELSE LET i == CHOOSE j \in 1..Len(s) : \A k \in 1..Len(s) : s[j] >= s[k]
         IN  <<s[i]>> \o SortDesc(SubSeq(s, 1, i - 1) \o SubSeq(s, i + 1, Len(s)))

(* Variant: dense ranking, the rank after a tie group does not skip. *)
RankDense(v, gpas) ==
    1 + Cardinality({g \in {gpas[j] : j \in 1..Len(gpas)} : g > v})

RankMin(v, gpas) ==
    LET sorted == SortDesc(gpas)
    IN  CHOOSE i \in 1..Len(sorted) :
            sorted[i] = v /\ \A k \in 1..(i - 1) : sorted[k] # v

(* round((1 - (Rank - 1) / Total_Students) * 100, 2) in hundredths of a     *)
(* percent; no exact half occurs for fewer than 32 students.               *)
PercentileOf(rank, total) ==
    LET n == 10000 * (total - (rank - 1))
    IN  IF 2 * (n % total) >= total THEN (n \div total) + 1 ELSE n \div total

Ranked(d) ==
    LET gpas == [i \in 1..Len(d) |-> d[i].GPA]
    IN  [i \in 1..Len(d) |->
            [RegNo |-> d[i].RegNo, cells |-> d[i].cells, GPA |-> d[i].GPA,
             Rank |-> RankMin(d[i].GPA, gpas),
             Total_Students |-> Len(d),
             Percentile |-> PercentileOf(RankMin(d[i].GPA, gpas), Len(d))]]

add_ranks(d) == IF d = <<>> THEN d ELSE Ranked(d)

LookupRows(d, reg_input) ==
    LET norm_reg == Strip(RemoveSpaces(reg_input))
    IN  SelectSeq(d, LAMBDA r : Upper(r.RegNo) = Upper(norm_reg))

(* ------------------------------- inputs -------------------------------- *)
FileNames ==
    { <<"i","t","1","0","4","0","5">>,     \* "it10405": IT1040, 3 credits
      <<"r">> }                            \* no course code in the name

PageTexts ==
    { None,                                 \* extract_text() gave None
      <<"I","T","1","2">>,                  \* "IT12": too few digits for a code
      <<"x","I","T","9","9","9"," ","i","t","1","0","4","0">> }  \* "xIT999 it1040"

FirstRows ==
    { <<<<"N","o">>, <<"G","r","a","d","e">>>>,           \* a header row
      <<<<"I","T","1">>, <<"A">>>> }                      \* a data row on top

RowPool ==
    { <<<<"I","T","1">>, <<"J","o">>, <<"8","8">>, <<"A">>>>,
      <<<<"I","T","1">>, <<"x">>>>,
      <<<<"i","t","1">>, <<" ","a"," ">>>>,
      <<<<"i","t","1">>, <<"8","8">>>>,
      <<<<"I","T"," ","2">>, <<"B">>, <<>>>>,
      <<None, <<"I","T"," ","2">>, <<"A","-">>>>,
      <<<<"N","o">>, <<"N","a","m","e">>>>,
      <<>> }

RegInputs ==
    { <<" ","i","t"," ","1">>, <<"I","T","2">>, <<"z","z">> }

GenCells ==
    { None, <<" ">>, <<"I","T","1">>, <<" ","i","t","2">>, <<"8","8">>,
      <<" ","b","+">> }

GenRows == UNION { [1..n -> GenCells] : n \in 0..MaxCols }

(* ------------------------------- state --------------------------------- *)
Init ==
    /\ pc = "file_loop"
    /\ nfiles = 0
    /\ filename = None
    /\ txt = <<>>
    /\ scanLeft = 0
    /\ module_code = None
    /\ pagesLeft = 0
    /\ header = None
    /\ rowsLeft = 0
    /\ row = <<>>
    /\ student_results = <<>>
    /\ found_modules = {}
    /\ overwrote = FALSE
    /\ df = <<>>
    /\ student_row = <<>>

(* for filename, file_bytes in files: the hint from the name, then         *)
(* pdfplumber.open, which raises on bytes it cannot parse; nothing catches *)
(* it.  npages is len(pdf.pages).  The text of the pages is scanned only   *)
(* when the name gave no hint.                                             *)
OpenFile(name, readable, npages) ==
    /\ pc = "file_loop"
    /\ nfiles < MaxFiles
    /\ nfiles' = nfiles + 1
    /\ filename' = name
    /\ module_code' = _extract_module_code_from_name(name)
    /\ IF readable
       THEN /\ pagesLeft' = npages
            /\ IF module_code' = None /\ npages > 0
               THEN pc' = "text_loop" /\ scanLeft' = npages
               ELSE pc' = "page_loop" /\ scanLeft' = 0
       ELSE /\ pc' = "exception"
            /\ UNCHANGED <<pagesLeft, scanLeft>>
    /\ UNCHANGED <<txt, header, rowsLeft, row, student_results, found_modules,
                   overwrote, df, student_row>>

(* One iteration of: for page in pdf.pages (the text scan), with its break *)
(* at the first match; t is what page.extract_text() returns.              *)
ScanPage(t) ==
    /\ pc = "text_loop"
    /\ scanLeft > 0
    /\ txt' = (IF IsStr(t) THEN t ELSE <<>>)
    /\ LET mm == MODULE_PATTERN_search(txt')
       IN  IF mm # None
           THEN /\ module_code' = Upper(mm)
                /\ scanLeft' = 0
                /\ pc' = "page_loop"
           ELSE /\ scanLeft' = scanLeft - 1
                /\ pc' = (IF scanLeft = 1 THEN "page_loop" ELSE "text_loop")
                /\ UNCHANGED module_code
    /\ UNCHANGED <<nfiles, filename, pagesLeft, header, rowsLeft, row,
                   student_results, found_modules, overwrote, df, student_row>>

(* table = page.extract_table(); a page with no table or at most one row   *)
(* is skipped, else the loop runs over table[1:].  first is table[0] (None *)
(* when there is no table), n the number of rows after it.  header holds   *)
(* table[0] while the rows of the page are iterated.                       *)
ExtractTable(first, n) ==
    /\ pc = "page_loop"
    /\ pagesLeft > 0
    /\ IF first = None \/ n = 0
       THEN /\ pagesLeft' = pagesLeft - 1
            /\ UNCHANGED <<pc, rowsLeft, header>>
       ELSE /\ pc' = "row_loop"
            /\ rowsLeft' = n
            /\ header' = first
            /\ UNCHANGED pagesLeft
    /\ UNCHANGED <<nfiles, filename, txt, scanLeft, module_code, row,
                   student_results, found_modules, overwrote, df, student_row>>

(* One iteration of: for row in table[1:].  overwrote records whether the  *)
(* assignment replaced a cell the matrix already held.                     *)
ProcessRow(r) ==
    /\ pc = "row_loop"
    /\ rowsLeft > 0
    /\ rowsLeft' = rowsLeft - 1
    /\ row' = r
    /\ LET reg_no == FindRegNo(r)
           grade  == FindGrade(r)
       IN  IF r = <<>> \/ reg_no = None \/ module_code = None
           THEN UNCHANGED <<student_results, found_modules, overwrote>>
           ELSE /\ found_modules' = found_modules \cup {module_code}
                /\ student_results' =
                      Record(student_results, reg_no, module_code, grade)
                /\ overwrote' = /\ reg_no \in DOMAIN student_results
                                /\ module_code \in DOMAIN student_results[reg_no]
    /\ UNCHANGED <<pc, nfiles, filename, txt, scanLeft, module_code, pagesLeft, header,
                   df, student_row>>

(* The row loop of a page is exhausted.  table and row are not read again  *)
(* before the next page assigns them: they are cleared here.               *)
EndTable ==
    /\ pc = "row_loop"
    /\ rowsLeft = 0
    /\ pc' = "page_loop"
    /\ pagesLeft' = pagesLeft - 1
    /\ header' = None
    /\ row' = <<>>
    /\ UNCHANGED <<nfiles, filename, txt, scanLeft, module_code, rowsLeft,
                   student_results, found_modules, overwrote, df, student_row>>

(* The page loop of a document is exhausted; the with block closes it.     *)
(* filename and module_code are assigned anew by the next iteration before *)
(* they are read: they are cleared here.                                   *)
CloseFile ==
    /\ pc = "page_loop"
    /\ pagesLeft = 0
    /\ pc' = "file_loop"
    /\ filename' = None
    /\ txt' = <<>>
    /\ module_code' = None
    /\ UNCHANGED <<nfiles, scanLeft, pagesLeft, header, rowsLeft, row,
                   student_results, found_modules, overwrote, df, student_row>>

(* The file loop is exhausted: build the matrix, compute GPA, drop the     *)
(* students without one, return.  At least one file was uploaded.          *)
(* student_results and found_modules stay as the matrix the report was    *)
(* made from.                                                              *)
BuildReport ==
    /\ pc = "file_loop"
    /\ nfiles >= 1
    /\ df' \in Reports(student_results, found_modules)
    /\ pc' = "parsed"
    /\ UNCHANGED <<nfiles, filename, txt, scanLeft, module_code, pagesLeft, header,
                   rowsLeft, row, student_results, found_modules, overwrote,
                   student_row>>

AddRanks ==
    /\ pc = "parsed"
    /\ df' = add_ranks(df)
    /\ pc' = "ranked"
    /\ UNCHANGED <<nfiles, filename, txt, scanLeft, module_code, pagesLeft, header,
                   rowsLeft, row, student_results, found_modules,
                   overwrote, student_row>>

(* if df.empty: st.error(...); st.stop() *)
EmptyCheck ==
    /\ pc = "ranked"
    /\ pc' = IF df = <<>> THEN "no_valid_records" ELSE "tabs"
    /\ UNCHANGED <<nfiles, filename, txt, scanLeft, module_code, pagesLeft, header,
                   rowsLeft, row, student_results, found_modules,
                   overwrote, df, student_row>>

Lookup(reg_input) ==
    /\ pc = "tabs"
    /\ student_row' = LookupRows(df, reg_input)
    /\ pc' = "looked_up"
    /\ UNCHANGED <<nfiles, filename, txt, scanLeft, module_code, pagesLeft, header,
                   rowsLeft, row, student_results, found_modules,
                   overwrote, df>>

Next ==
    \/ \E name \in FileNames, readable \in BOOLEAN, npages \in 0..MaxPages :
           OpenFile(name, readable, npages)
    \/ \E t \in PageTexts : ScanPage(t)
    \/ \E first \in FirstRows \cup {None}, n \in 0..MaxRows : ExtractTable(first, n)
    \/ \E r \in RowPool : ProcessRow(r)
    \/ EndTable
    \/ CloseFile
    \/ BuildReport
    \/ AddRanks
    \/ EmptyCheck
    \/ \E reg_input \in RegInputs : Lookup(reg_input)

Spec == Init /\ [][Next]_vars

(* The row interpreter on every row of up to MaxCols cells: the first data *)
(* row of the first page of a document named "it10405".                    *)
InitRow ==
    /\ pc = "row_loop"
    /\ nfiles = 1
    /\ filename = <<"i","t","1","0","4","0","5">>
    /\ txt = <<>>
    /\ scanLeft = 0
    /\ module_code = <<"I","T","1","0","4","0">>
    /\ pagesLeft = 1
    /\ header = <<<<"N","o">>, <<"G","r","a","d","e">>>>
    /\ rowsLeft = 1
    /\ row = <<>>
    /\ student_results = <<>>
    /\ found_modules = {}
    /\ overwrote = FALSE
    /\ df = <<>>
    /\ student_row = <<>>

NextRow == rowsLeft > 0 /\ \E r \in GenRows : ProcessRow(r)

SpecRow == InitRow /\ [][NextRow]_vars

(* ------------------------------ properties ----------------------------- *)
Returned == pc \in {"parsed", "ranked", "no_valid_records", "tabs", "looked_up"}

RECURSIVE SetSum(_, _)
SetSum(S, f) ==
    IF S = {} THEN 0
    ELSE LET x == CHOOSE y \in S : TRUE IN f[x] + SetSum(S \ {x}, f)

Abs(n) == IF n < 0 THEN 0 - n ELSE n

RecognizedGrade(cell) == IsStr(cell) /\ Upper(Strip(cell)) \in DOMAIN GP_MAP

(* C1: every row of the report has as GPA the credit-weighted mean of the   *)
(* grade points of exactly its recognized cells, to the nearest hundredth;  *)
(* a course missing from the registry weighs 1.                             *)
GpaIsCreditWeightedMean ==
    Returned =>
        \A i \in 1..Len(df) :
            LET cells  == df[i].cells
                graded == {m \in DOMAIN cells : RecognizedGrade(cells[m])}
                weight == [m \in graded |->
                             IF m \in DOMAIN CREDITS THEN CREDITS[m] ELSE 1]
                points == SetSum(graded,
                                 [m \in graded |->
                                    GP_MAP[Upper(Strip(cells[m]))] * weight[m]])
                credits == SetSum(graded, weight)
            IN  /\ credits > 0
                /\ 2 * Abs(df[i].GPA * credits - 10 * points) <= credits

(* A student with A- at 3 credits and B at the default weight 1, and a      *)
(* student whose numeric score counts for nothing beside an "a".            *)
GpaWitness ==
    /\ pc = "parsed"
    /\ found_modules = {<<"I","T","1","0","4","0">>, <<"I","T","9","9","9">>}
    /\ \E i, j \in 1..Len(df) :
          /\ df[i].RegNo = <<"I","T","2">>
          /\ df[i].cells[<<"I","T","1","0","4","0">>] = <<"A","-">>
          /\ df[i].cells[<<"I","T","9","9","9">>] = <<"B">>
          /\ df[i].GPA = 353
          /\ df[j].RegNo = <<"i","t","1">>
          /\ df[j].cells[<<"I","T","1","0","4","0">>] = <<"8","8">>
          /\ df[j].cells[<<"I","T","9","9","9">>] = <<"a">>
          /\ df[j].GPA = 400

HasRecognized(key) ==
    \E m \in DOMAIN student_results[key] : RecognizedGrade(student_results[key][m])

CellOf(key, m) ==
    IF m \in DOMAIN student_results[key] THEN student_results[key][m] ELSE None

(* C2: the report holds exactly the students of the matrix with at least    *)
(* one recognized grade, each with the cells of the matrix, in the order of *)
(* the matrix; a student with only null or unrecognized cells is left out.  *)
ReportHoldsExactlyGradedStudents ==
    Returned =>
        LET kept == SelectSeq(Sorted(DOMAIN student_results), HasRecognized)
        IN  /\ Len(df) = Len(kept)
            /\ \A i \in 1..Len(df) :
                  /\ df[i].RegNo = RemoveSpaces(kept[i])
                  /\ DOMAIN df[i].cells = found_modules
                  /\ \A m \in found_modules : df[i].cells[m] = CellOf(kept[i], m)

(* A student registered only with a null grade is left out of a report that *)
(* holds another student.                                                   *)
ExcludedWitness ==
    /\ pc = "parsed"
    /\ Len(df) = 1
    /\ <<"I","T","1">> \in DOMAIN student_results
    /\ \A m \in DOMAIN student_results[<<"I","T","1">>] :
          student_results[<<"I","T","1">>][m] = None
    /\ df[1].RegNo = <<"I","T","2">>

Ranking == pc \in {"ranked", "tabs", "looked_up"} /\ df # <<>>

(* C3: in a non-empty report Rank is 1 + the number of students with a      *)
(* strictly greater GPA, so equal GPAs share a rank, the least rank is 1    *)
(* and the rank after a tie group skips the group; Total_Students is the    *)
(* number of rows and the top GPA has Percentile 100.                       *)
RanksAreCompetitionRanks ==
    Ranking =>
        \A i \in 1..Len(df) :
            LET above == {j \in 1..Len(df) : df[j].GPA > df[i].GPA}
            IN  /\ df[i].Rank = 1 + Cardinality(above)
                /\ df[i].Total_Students = Len(df)
                /\ above = {} => df[i].Rank = 1 /\ df[i].Percentile = 10000
                /\ \A j \in 1..Len(df) :
                      df[j].GPA = df[i].GPA => df[j].Rank = df[i].Rank
                /\ \E j \in 1..Len(df) : df[j].Rank = 1

(* Two students tied at the top and a third below them: ranks 1, 1, 3. *)
TieWitness ==
    /\ Ranking
    /\ Len(df) = 3
    /\ \E i, j, k \in 1..3 :
          /\ i # j
          /\ df[i].GPA = df[j].GPA
          /\ df[i].Rank = 1 /\ df[j].Rank = 1
          /\ df[k].GPA < df[i].GPA
          /\ df[k].Rank = 3

(* The (student, course) pairs the matrix holds a cell for. *)
Cells(sr) == UNION { {<<k, m>> : m \in DOMAIN sr[k]} : k \in DOMAIN sr }

RowStep == pc = "row_loop" /\ rowsLeft' = rowsLeft - 1

(* C4: a row that produces a record for a (student, course) pair sets that  *)
(* cell to the record's value, grade symbol or null, whatever the cell held *)
(* before; no other cell changes, and nothing but a record changes the      *)
(* matrix: each cell holds the value of the last record for its pair.       *)
LastWriteWins ==
    [][ IF RowStep /\ module_code # None /\ FindRegNo(row') # None
        THEN LET k == FindRegNo(row')
             IN  /\ k \in DOMAIN student_results'
                 /\ module_code \in DOMAIN student_results'[k]
                 /\ student_results'[k][module_code] = FindGrade(row')
                 /\ Cells(student_results') =
                       Cells(student_results) \cup {<<k, module_code>>}
                 /\ \A c \in Cells(student_results) \ {<<k, module_code>>} :
                       student_results'[c[1]][c[2]] = student_results[c[1]][c[2]]
        ELSE student_results' = student_results ]_vars

(* A record has replaced the value an earlier record gave its cell. *)
OverwriteWitness ==
    /\ pc = "row_loop"
    /\ overwrote
    /\ FindRegNo(row) # None
    /\ student_results[FindRegNo(row)][module_code] = FindGrade(row)

(* C5: no document makes the run abort. *)
RunNeverAborts == pc # "exception"

NormalizedId(s) == Upper(SelectSeq(s, LAMBDA c : ~IsSpace(c)))

(* C6: no two rows of the report have the same registration number after   *)
(* whitespace removal and case folding, and a lookup matches at most one.   *)
OneRowPerRegistrationId ==
    /\ Returned =>
          \A i, j \in 1..Len(df) :
              i # j => NormalizedId(df[i].RegNo) # NormalizedId(df[j].RegNo)
    /\ Len(student_row) <= 1

(* C8: when the rows of a page's table have been iterated, every row of the *)
(* table that carries a registration id, the first one included, has        *)
(* produced a record under the document's course code.                      *)
EveryIdRowIsRecorded ==
    (pc = "row_loop" /\ rowsLeft = 0 /\ module_code # None) =>
        \A r \in {header, row} :
            FindRegNo(r) # None =>
                /\ FindRegNo(r) \in DOMAIN student_results
                /\ module_code \in DOMAIN student_results[FindRegNo(r)]

NameCode(name) == MODULE_PATTERN_search(name)

(* C9: the hint of a document is the upper-cased code of its name, else of  *)
(* the first page text that holds one (the scan goes on only while none is  *)
(* found), else none; a record goes to the column of the hint, and with no  *)
(* hint a row changes neither the matrix nor the set of courses.            *)
RowsGoToTheHint ==
    /\ [](pc = "text_loop" => NameCode(filename) = None /\ module_code = None)
    /\ [](pc \in {"page_loop", "row_loop"} =>
            module_code = IF NameCode(filename) # None
                          THEN Upper(NameCode(filename))
                          ELSE IF MODULE_PATTERN_search(txt) # None
                               THEN Upper(MODULE_PATTERN_search(txt))
                               ELSE None)
    /\ [][ RowStep =>
             IF module_code = None
             THEN UNCHANGED <<student_results, found_modules>>
             ELSE \A c \in Cells(student_results') :
                     (c \notin Cells(student_results)
                        \/ student_results'[c[1]][c[2]] # student_results[c[1]][c[2]])
                     => c[2] = module_code /\ module_code \in found_modules' ]_vars

(* A row with a registration id and a grade was iterated in a document with *)
(* no hint, and nothing was registered.                                     *)
NoHintWitness ==
    /\ pc = "row_loop"
    /\ module_code = None
    /\ rowsLeft = 0
    /\ FindRegNo(row) # None
    /\ FindGrade(row) # None
    /\ student_results = <<>>
    /\ found_modules = {}

RegCells(r) ==
    {i \in 1..Len(r) : IsStr(r[i]) /\ REG_PATTERN_match(Strip(r[i]))}

GradeCells(r) ==
    {i \in 1..Len(r) :
        IsStr(r[i]) /\ Strip(r[i]) # <<>> /\ GRADE_PATTERN_match(Strip(r[i]))}

Least(S) == CHOOSE i \in S : \A j \in S : i <= j

Greatest(S) == CHOOSE i \in S : \A j \in S : i >= j

Interpreted == pc = "row_loop" /\ rowsLeft = 0

(* C7: a row with no cell matching the registration grammar is discarded;   *)
(* otherwise the student is the trimmed text of the leftmost such cell and, *)
(* when some non-empty cell matches the grade grammar, the grade recorded   *)
(* is the trimmed text of the rightmost one.                                *)
RightmostGradeLeftmostId ==
    Interpreted =>
        IF RegCells(row) = {}
        THEN student_results = <<>>
        ELSE LET k == Strip(row[Least(RegCells(row))])
             IN  /\ DOMAIN student_results = {k}
                 /\ DOMAIN student_results[k] = {module_code}
                 /\ GradeCells(row) # {} =>
                       student_results[k][module_code] =
                           Strip(row[Greatest(GradeCells(row))])

(* A row with two registration cells and two different grade cells, the     *)
(* score on the left of the letter, as in ["IT20001234", "John", "88", "A"].*)
RightmostWitness ==
    /\ Interpreted
    /\ Cardinality(RegCells(row)) >= 2
    /\ Strip(row[Least(RegCells(row))]) # Strip(row[Greatest(RegCells(row))])
    /\ Cardinality(GradeCells(row)) >= 2
    /\ Strip(row[Least(GradeCells(row))]) = <<"8","8">>
    /\ student_results[Strip(row[Least(RegCells(row))])][module_code] = <<"b","+">>

(* C10: the grade recorded for a row is the one the right-to-left scan      *)
(* alone finds; when that scan finds none the grade is null, whatever the   *)
(* cells at the fallback indices 3, 2, 4, 5 hold.                           *)
FallbackNeverDecides ==
    (Interpreted /\ RegCells(row) # {}) =>
        \A k \in DOMAIN student_results :
            student_results[k][module_code] = ReverseScanGrade(row)

(* A row of six cells with text at every fallback index and no grade: the   *)
(* fallback ran and the grade is null.                                      *)
FallbackWitness ==
    /\ Interpreted
    /\ Len(row) = 6
    /\ \A i \in 3..6 : IsStr(row[i]) /\ Strip(row[i]) # <<>>
    /\ ReverseScanGrade(row) = None
    /\ \E k \in DOMAIN student_results : student_results[k][module_code] = None

====
